---- MODULE Spec2Model ----
(***************************************************************************)
(* A model of Jitter's live-patching engine:                               *)
(*   - the ephemeral patch applier   (replace_impl.py)                     *)
(*   - the durable source rewriter   (jitter/source_manipulation)          *)
(*   - the generation workflow       (jitter/generation/generator.py and   *)
(*                                    the prototype implementation_        *)
(*                                    generator.py)                        *)
(*   - the failure recorder and the scoped handler                         *)
(*                                   (not_implemented_handler.py)          *)
(*   - the function inspector        (jitter/source_manipulation/          *)
(*                                    inspection.py)                       *)
(*   - the orchestrator              (jitter/core/handler.py, which is not *)
(*                                    among the sources: modelled from     *)
(*                                    section 4.6 of the specification)    *)
(* Each part has its own specification; the variables of the other parts   *)
(* stay at their idle values.                                              *)
(***************************************************************************)
EXTENDS Integers, Sequences, FiniteSets, TLC

\* ------------------------------------------------------------------ bounds
\* Largest parameter count of an original function or of a candidate.
MaxArity == 5
\* Largest number of lines of the source file before any rewrite.
MaxFileLen == 4
\* Largest number of durable rewrites in one behaviour.
MaxRewrites == 1
\* Longest call chain handed to the generation workflow.
MaxChain == 12
\* Most lines the user types at one manual-authoring prompt.
MaxInput == 2
\* Largest number of durable rewrites in one session on a file of several
\* functions.
MaxSessionRewrites == 2

VARIABLES
    \* --- ephemeral patching (replace_impl.py)
    heap,       \* function objects; a reference is an index into heap
    names,      \* name -> reference (0: not bound yet)
    attempt,    \* the last call of replace_function_implementation
    called,     \* the last call of the function through one of its names
    \* --- durable rewriting (jitter/source_manipulation/replacement.py)
    file_exists,\* whether the source file exists
    file,       \* the lines of the source file
    location,   \* the FunctionLocation at hand
    rewrite,    \* the last call of the durable replace_function_implementation
    rewrites,   \* how many calls there have been
    \* --- generation workflow (jitter/generation/generator.py and the
    \*     prototype implementation_generator.py)
    variant,    \* which generate_implementation_for_function runs
    pc,         \* where it is
    call_stack, \* its call_stack argument, root first
    request,    \* the request rendered for the generator
    suggested_impl, \* the suggestion at hand
    result,     \* how the call ended
    history,    \* what has happened during the call
    \* --- failure recorder and scoped handler (not_implemented_handler.py)
    exc_info,   \* the failure being handled: sys.exc_info()
    found,      \* how the last get_function_from_not_implemented_error ended
    handler,    \* the with NotImplementedHandler() block
    \* --- function inspector (jitter/source_manipulation/inspection.py)
    target,     \* the callable handed to get_function_lines
    inspected,  \* how the last get_function_lines ended
    \* --- orchestrator (specification, section 4.6)
    orch,       \* the workflow for one detected placeholder failure
    \* --- a session of durable rewrites on one file of several functions
    \*     (inspection.py and replacement.py together; it also uses the
    \*     variables of durable rewriting)
    session     \* the functions of the file and the rewrite under way

evars == <<heap, names, attempt, called>>
dvars == <<file_exists, file, location, rewrite, rewrites>>
gvars == <<variant, pc, call_stack, request, suggested_impl, result, history>>
rvars == <<exc_info, found, handler>>
ivars == <<target, inspected>>
ovars == <<orch>>
svars == <<session>>
vars == <<heap, names, attempt, called,
          file_exists, file, location, rewrite, rewrites,
          variant, pc, call_stack, request, suggested_impl, result, history,
          exc_info, found, handler, target, inspected, orch, session>>

\* ------------------------------------------------------------ idle values
NoLocation == [start_line |-> -1, end_line |-> -1, source_lines |-> <<>>]
NoRewrite ==
    [outcome |-> "none", before |-> <<>>, location |-> NoLocation,
     new_implementation |-> <<>>]

IdleDurable ==
    /\ file_exists = FALSE
    /\ file = <<>>
    /\ location = NoLocation
    /\ rewrite = NoRewrite
    /\ rewrites = 0

NoRequest == [frames |-> <<>>, shown |-> -1, total |-> -1]
NoImpl == [origin |-> "none", lines |-> <<>>]
NoResult == [kind |-> "none", impl |-> NoImpl, exc |-> "none"]
NoHistory ==
    [llm_calls |-> 0, llm_failure |-> "none", manual_prompts |-> 0,
     declined |-> FALSE, answered_yes |-> FALSE]

IdleGen ==
    /\ variant = "none"
    /\ pc = "idle"
    /\ call_stack = <<>>
    /\ request = NoRequest
    /\ suggested_impl = NoImpl
    /\ result = NoResult
    /\ history = NoHistory

\* sys.exc_info() when no failure is being handled: (None, None, None)
NoExcInfo == [type |-> "None", has_tb |-> FALSE, tb |-> <<>>]
NotCalled == [kind |-> "none", value |-> "none"]
NoHandler == [pc |-> "idle", escaping |-> NoExcInfo, propagated |-> NoExcInfo,
              inspected |-> FALSE]

IdleRecorder ==
    /\ exc_info = NoExcInfo
    /\ found = NotCalled
    /\ handler = NoHandler

NoTarget == [kind |-> "none"]

IdleInspect ==
    /\ target = NoTarget
    /\ inspected = NotCalled

\* no candidate text at hand
NoCandidate == [syntax_ok |-> TRUE, consts |-> <<>>, decl |-> "none"]
NoOrch == [state |-> "idle", candidate |-> NoCandidate, failures |-> 0,
           returns |-> 0, declined |-> FALSE]

IdleOrch == orch = NoOrch

NoSession ==
    [co_firstlineno |-> <<>>, owner |-> <<>>, target |-> "none",
     error |-> "none", rewritten |-> "none", owner_before |-> <<>>]

IdleSession == session = NoSession

\* ------------------------------------------------- ephemeral: Python data
\* inspect.Parameter kinds: positional-or-keyword, *args, keyword-only, **kw.
Kinds == {"pos", "varpos", "kwonly", "varkw"}

\* The parameter list of a def of m parameters whose last parameter has kind
\* `last` and whose other parameters are positional:
\*   "pos"    def f(p1, ..., pm)        "varpos" def f(p1, ..., *args)
\*   "kwonly" def f(p1, ..., *, pm)     "varkw"  def f(p1, ..., **kw)
ParamList(m, last) ==
    [i \in 1..m |-> IF i = m THEN last ELSE "pos"]

\* One entry of a code object's co_consts. co_kind "const" is a constant that
\* is not a code object (a number, a string); "def", "lambda" and "class" are
\* the code objects a module-level def, lambda or class statement leaves.
\* Code compiled at module level closes over nothing: nfree = 0.
CodeObject(kind, body, params, varnames) ==
    [co_kind |-> kind, body |-> body, params |-> params,
     varnames |-> varnames, nfree |-> 0]

NoCode == CodeObject("none", "none", <<>>, "none")
PlainConst == CodeObject("const", "none", <<>>, "none")

\* A candidate source text: whether it is valid Python, the constants its
\* compiled module holds, in order, and how its def declares its parameters
\* ("same": as the original; "renamed"; "retyped": other annotations;
\* "defaulted": with default values; "documented": with another docstring).
\* Annotations and defaults belong to the def statement, which is compiled
\* and never executed; __doc__ is set when a function object is created.
Source(ok, consts, decl) ==
    [syntax_ok |-> ok, consts |-> consts, decl |-> decl]

\* "def f(:" and the like
CandSyntaxError == {Source(FALSE, <<>>, "same")}
\* "x = 1": valid Python that defines nothing
CandNoDef == {Source(TRUE, <<PlainConst>>, "same")}
\* one def, possibly after a plain constant
CandOneDef ==
    {Source(TRUE, <<CodeObject("def", "new1", ParamList(m, k), "same")>>, "same") :
        m \in 0..MaxArity, k \in Kinds}
    \cup {Source(TRUE, <<CodeObject("def", "new2", ParamList(m, "pos"), "same")>>, "same") :
        m \in 0..MaxArity}
    \cup {Source(TRUE, <<CodeObject("def", "new1", ParamList(m, "pos"),
                                    IF d = "renamed" THEN d ELSE "same")>>, d) :
        m \in 0..MaxArity, d \in {"renamed", "retyped", "defaulted", "documented"}}
    \cup {Source(TRUE, <<PlainConst,
                         CodeObject("def", "new1", ParamList(m, "pos"), "same")>>,
                 "same") : m \in 0..MaxArity}
\* two defs, one after the other
CandTwoDefs ==
    {Source(TRUE, <<CodeObject("def", "new1", ParamList(m1, "pos"), "same"),
                    CodeObject("def", "new2", ParamList(m2, "pos"), "same")>>,
            "same") : m1 \in 0..MaxArity, m2 \in {0, MaxArity}}
\* a class or a lambda before the def: the first code object is no def
CandOtherFirst ==
    {Source(TRUE, <<CodeObject("class", "classbody", <<>>, "none"),
                    CodeObject("def", "new1", ParamList(m, "pos"), "same")>>,
            "same") : m \in 0..MaxArity}
    \cup {Source(TRUE, <<CodeObject("lambda", "lambdabody", ParamList(m, "pos"), "same")>>,
                 "same") : m \in 0..MaxArity}

Candidates ==
    CandSyntaxError \cup CandNoDef \cup CandOneDef \cup CandTwoDefs \cup CandOtherFirst

\* The number of top-level callable definitions (def statements) of a source.
NumDefs(src) ==
    Cardinality({i \in DOMAIN src.consts : src.consts[i].co_kind = "def"})

\* A function object. The signature is read off its code object; defaults,
\* annotations, doc, closure and globals are attributes of the function.
FunctionObject(code, closure) ==
    [code |-> code, ndefaults |-> 0, annotations |-> "orig_annotations",
     doc |-> "orig_doc", closure |-> closure, globals |-> "orig_globals"]

\* The original functions: def f(p1, ..., pn) closing over `free` variables.
OriginalCode(n, free) ==
    [co_kind |-> "def", body |-> "orig", params |-> ParamList(n, "pos"),
     varnames |-> "same", nfree |-> free]

Names == {"func", "alias"}

\* ------------------------------------------- ephemeral: replace_impl.py
\* compile(new_code, "<string>", "exec"): SyntaxError or the module's consts
compile(src) ==
    [ok |-> src.syntax_ok, co_consts |-> src.consts]

\* The loop over compiled_code.co_consts: the first constant that is a code
\* object, or None.
RECURSIVE FindFunctionCode(_)
FindFunctionCode(co_consts) ==
    IF co_consts = <<>> THEN NoCode
    ELSE IF Head(co_consts).co_kind # "const" THEN Head(co_consts)
    ELSE FindFunctionCode(Tail(co_consts))

\* inspect.signature: the parameters of the function's code object
signature(code) == code.params

parameter_structures_match_LessOrEqual(sig1, sig2) ==
    Len(sig1) <= Len(sig2)

\* _parameter_structures_match: only the counts are compared
parameter_structures_match(sig1, sig2) ==
    ~(Len(sig1) # Len(sig2))

\* How a call of replace_function_implementation(func, new_code) ends.
\* "FreeVars" is the ValueError of the assignment func.__code__ = code when
\* the code's free-variable count differs from the function's closure size.
PatchOutcome(f, src) ==
    LET compiled == compile(src)
        func_code_obj == FindFunctionCode(compiled.co_consts)
    IN  IF ~compiled.ok THEN "SyntaxError"
        ELSE IF func_code_obj = NoCode THEN "NoFunction"
        ELSE IF ~parameter_structures_match(signature(f.code),
                                            signature(func_code_obj))
             THEN "Mismatch"
        ELSE IF func_code_obj.nfree # f.closure THEN "FreeVars"
        ELSE "applied"

\* The function object the call would leave if func.__code__ were assigned
\* before the signatures are compared.
PatchedFunction_AssignsBeforeValidation(f, src) ==
    LET func_code_obj == FindFunctionCode(compile(src).co_consts)
    IN  IF compile(src).ok /\ func_code_obj # NoCode
              /\ func_code_obj.nfree = f.closure
        THEN [f EXCEPT !.code = func_code_obj]
        ELSE f

\* The function object the call would leave if the two assignments of
\* new_func.__defaults__ / __kwdefaults__ were made: new_func is built by
\* types.FunctionType from the code object alone and has no defaults.
PatchedFunction_CopiesDefaults(f, src) ==
    IF PatchOutcome(f, src) = "applied"
    THEN [f EXCEPT !.code = FindFunctionCode(compile(src).co_consts),
                   !.ndefaults = 0]
    ELSE f

\* The function object after the call: only __code__ is assigned (and
\* __annotations__ with a copy of itself).
PatchedFunction(f, src) ==
    IF PatchOutcome(f, src) = "applied"
    THEN [f EXCEPT !.code = FindFunctionCode(compile(src).co_consts),
                   !.annotations = f.annotations]
    ELSE f

NoCall == [nm |-> "none", nargs |-> 0, result |-> "none"]

Ephemeral_replace_function_implementation ==
    \E src \in Candidates :
        LET ref == names["func"]
            f == heap[ref]
        IN  /\ heap' = [heap EXCEPT ![ref] = PatchedFunction(f, src)]
            /\ attempt' = [outcome |-> PatchOutcome(f, src),
                           src |-> src,
                           before |-> f,
                           refs |-> {nm \in Names : names[nm] = ref}]
            /\ called' = NoCall
            /\ UNCHANGED names

\* original_add_reference = add: a second name for the same function object
BindAlias ==
    /\ names["alias"] = 0
    /\ names' = [names EXCEPT !["alias"] = names["func"]]
    /\ UNCHANGED <<heap, attempt, called>>

\* Python's argument binding for a call name(a1, ..., a_nargs) with positional
\* arguments only: the body that runs, or the TypeError raised before any
\* body runs. __defaults__ is the function's own; there are no __kwdefaults__.
NumKind(params, k) ==
    Cardinality({i \in DOMAIN params : params[i] = k})

CallBinds(f, nargs) ==
    LET p == f.code.params
    IN  /\ (nargs <= NumKind(p, "pos") \/ NumKind(p, "varpos") > 0)
        /\ nargs >= NumKind(p, "pos") - f.ndefaults
        /\ NumKind(p, "kwonly") = 0

Call(nm, nargs) ==
    IF names[nm] = 0 THEN "NameError"
    ELSE IF CallBinds(heap[names[nm]], nargs) THEN heap[names[nm]].code.body
    ELSE "TypeError"

\* add(3, 4), original_add_reference(3, 4): a call through a bound name with
\* as many positional arguments as the function was written with. The patch
\* never changes the parameter count, so that is the current count.
CallByName ==
    \E nm \in Names :
        /\ names[nm] # 0
        /\ LET nargs == Len(heap[names[nm]].code.params)
           IN  called' = [nm |-> nm, nargs |-> nargs, result |-> Call(nm, nargs)]
        /\ UNCHANGED <<heap, names, attempt>>

NoAttempt ==
    [outcome |-> "none", src |-> Source(TRUE, <<>>, "same"),
     before |-> FunctionObject(NoCode, 0), refs |-> {}]

\* The originals: def f(p1, ..., pn) at module level or closing over one
\* variable, and def f(p1, p2=v) with a default value.
InitEphemeral ==
    /\ IdleDurable
    /\ IdleGen
    /\ IdleRecorder
    /\ IdleInspect
    /\ IdleOrch
    /\ IdleSession
    /\ \E n \in 0..MaxArity, free \in {0, 1}, d \in {0, 1} :
         /\ d = 1 => (n = 2 /\ free = 0)
         /\ heap = <<[FunctionObject(OriginalCode(n, free), free)
                        EXCEPT !.ndefaults = d]>>
    /\ names = [nm \in Names |-> IF nm = "func" THEN 1 ELSE 0]
    /\ attempt = NoAttempt
    /\ called = NoCall

NextEphemeral ==
    \/ Ephemeral_replace_function_implementation /\ UNCHANGED <<dvars, gvars, rvars, ivars, ovars, svars>>
    \/ BindAlias /\ UNCHANGED <<dvars, gvars, rvars, ivars, ovars, svars>>
    \/ CallByName /\ UNCHANGED <<dvars, gvars, rvars, ivars, ovars, svars>>

SpecEphemeral == InitEphemeral /\ [][NextEphemeral]_vars

\* ------------------------------------------------ ephemeral: the claims
\* The code object the last attempt found in its candidate.
FoundCode == FindFunctionCode(compile(attempt.src).co_consts)

\* C1: after a successful ephemeral patch, every name that referred to the
\* function before the patch runs the candidate's body when it is next called
\* with as many arguments as the original takes.
C1_AliasesRunCandidate ==
    (attempt.outcome = "applied" /\ called.nm \in attempt.refs)
        => called.result = FoundCode.body

C5_RejectsUnlessExactlyOneDef ==
    (attempt.outcome # "none"
        /\ (NumDefs(attempt.src) # 1 \/ FoundCode.co_kind # "def"))
        => /\ attempt.outcome # "applied"
           /\ heap[names["func"]] = attempt.before

\* C11: a patch changes the code of the function and nothing else: after any
\* attempt, applied or refused, the function's closure, globals, docstring,
\* annotations and default values are those it had before the attempt,
\* whatever the candidate's def declares.
C11_PatchKeepsMetadata ==
    attempt.outcome # "none" =>
        LET g == heap[names["func"]]
            f == attempt.before
        IN  /\ g.closure = f.closure
            /\ g.globals = f.globals
            /\ g.doc = f.doc
            /\ g.annotations = f.annotations
            /\ g.ndefaults = f.ndefaults
            /\ attempt.outcome = "applied" => g.code = FoundCode

\* C11's case: an original with a default value, patched by a candidate that
\* declares its own defaults.
C11_Witness ==
    /\ attempt.outcome = "applied"
    /\ attempt.src.decl = "defaulted"
    /\ attempt.before.ndefaults = 1
    /\ heap[names["func"]].code.body = "new1"
    /\ heap[names["func"]].ndefaults = 1

\* C20: an attempt that is refused (syntax error, no definition, arity
\* mismatch, or the ValueError of the code assignment) leaves the function's
\* code as it was before the attempt, be it the original's or that of an
\* earlier accepted candidate; an accepted attempt leaves the code found in
\* its candidate. So the code is always that of the most recent accepted
\* candidate, or the original's.
C20_BodyIsLastAcceptedCandidate ==
    /\ attempt.outcome \notin {"none", "applied"} =>
            heap[names["func"]].code = attempt.before.code
    /\ attempt.outcome = "applied" => heap[names["func"]].code = FoundCode
    /\ attempt.outcome = "none" => heap[names["func"]].code.body = "orig"

\* C20's case: a candidate was accepted, a later one of another arity was
\* refused, and the function still runs the accepted one.
C20_Witness ==
    /\ attempt.outcome = "Mismatch"
    /\ attempt.before.code.body = "new1"
    /\ heap[names["func"]].code.body = "new1"
    /\ called.result = "new1"

IdleEphemeral ==
    /\ heap = <<>>
    /\ names = [nm \in Names |-> 0]
    /\ attempt = NoAttempt
    /\ called = NoCall

\* ------------------------------- durable: source_manipulation/replacement.py
\* A line of text: the width of its leading whitespace, the kind of text
\* after it ("" for a blank line, "def" for text that starts with "def ",
\* "stmt" for any other text, "old" for a line of the file as first read) and,
\* for a line of the file as first read, its number there (else 0).
Line(ind, txt, id) == [ind |-> ind, txt |-> txt, id |-> id]

\* line.strip() is empty
IsBlank(line) == line.txt = ""

Min(a, b) == IF a < b THEN a ELSE b

\* lines[:k] and lines[k:] for k >= 0
SliceTo(lines, k) == SubSeq(lines, 1, Min(k, Len(lines)))
SliceFrom(lines, k) == SubSeq(lines, k + 1, Len(lines))

\* The candidates, as str.splitlines() cuts them.
NewImplementations ==
    { <<>>,                                                   \* ""
      <<Line(4, "", 0)>>,                                     \* "    "
      <<Line(0, "", 0), Line(0, "", 0)>>,                     \* "\n\n"
      <<Line(0, "stmt", 0)>>,                                 \* "x = 1"
      <<Line(0, "def", 0)>>,                                  \* "def f(): pass"
      <<Line(0, "def", 0), Line(4, "stmt", 0)>>,
      <<Line(0, "def", 0), Line(4, "stmt", 0), Line(8, "stmt", 0)>>,
      <<Line(0, "def", 0), Line(0, "", 0), Line(4, "stmt", 0)>>,
      <<Line(4, "def", 0), Line(8, "stmt", 0)>>,              \* indented def
      <<Line(0, "", 0), Line(0, "def", 0), Line(4, "stmt", 0)>>,  \* "\ndef ..."
      <<Line(0, "", 0), Line(4, "def", 0), Line(8, "stmt", 0)>> }

\* The indices of the non-blank lines of a text.
NonBlank(lines) == {i \in DOMAIN lines : ~IsBlank(lines[i])}

\* str.strip(): the text from its first non-blank character to its last; the
\* first line loses its leading whitespace.
Strip(lines) ==
    IF NonBlank(lines) = {} THEN <<>>
    ELSE LET first == CHOOSE i \in NonBlank(lines) : \A j \in NonBlank(lines) : i <= j
             last == CHOOSE i \in NonBlank(lines) : \A j \in NonBlank(lines) : j <= i
         IN  [i \in 1..(last - first + 1) |->
                IF i = 1 THEN Line(0, lines[first].txt, 0) ELSE lines[first + i - 1]]

\* not new_implementation.strip()
StripIsEmpty(new_implementation) == Strip(new_implementation) = <<>>

\* new_implementation.strip().startswith("def ")
StartsWithDef(new_implementation) ==
    /\ Strip(new_implementation) # <<>>
    /\ Strip(new_implementation)[1].txt = "def"

\* _get_indentation: the leading whitespace of a line ("" for no line)
get_indentation(source_lines) ==
    IF source_lines = <<>> THEN 0 ELSE source_lines[1].ind

\* One turn of the loop of _process_new_implementation (i is 1-based here).
process_line(i, line, base_indentation) ==
    IF ~IsBlank(line)
    THEN IF i = 1
         THEN Line(base_indentation + 0, line.txt, 0)        \* line.lstrip()
         ELSE Line(base_indentation + line.ind, line.txt, 0)
    ELSE Line(0, "", 0)                                      \* "\n"

\* _process_new_implementation: the lines to insert, or ValueError
process_new_implementation(new_implementation, base_indentation) ==
    IF StripIsEmpty(new_implementation)
    THEN [ok |-> FALSE, lines |-> <<>>]
    ELSE [ok |-> TRUE,
          lines |-> [i \in DOMAIN new_implementation |->
                        process_line(i, new_implementation[i], base_indentation)]]

splice_DropsOneMore(lines, start_idx, processed_lines, end_idx) ==
    SliceTo(lines, start_idx) \o processed_lines \o SliceFrom(lines, end_idx + 1)

\* new_lines = lines[:start_idx] + processed_lines + lines[end_idx:]
splice(lines, start_idx, processed_lines, end_idx) ==
    SliceTo(lines, start_idx) \o processed_lines \o SliceFrom(lines, end_idx)

RangeIsValid_EndUnchecked(loc, lines) ==
    ~(loc.start_line < 1)

\* not (location.start_line < 1 or location.end_line > len(lines))
RangeIsValid(loc, lines) ==
    ~(loc.start_line < 1 \/ loc.end_line > Len(lines))

RewriteOutcome_NoCandidateCheck(exists, lines, loc, new_implementation, io) ==
    IF ~exists THEN "FileNotFoundError"
    ELSE IF io = "read_error" THEN "OSError_read"
    ELSE IF ~RangeIsValid(loc, lines) THEN "ValueError_range"
    ELSE IF io \in {"write_error", "write_cut"} THEN "OSError_write"
    ELSE "written"

\* How the durable replace_function_implementation ends, in the order of its
\* checks. `io` is what the file system does: "ok", "read_error" (open for
\* reading fails), "write_error" (open for writing fails), "write_cut" (the
\* file is opened, and so emptied, and the write fails).
RewriteOutcome(exists, lines, loc, new_implementation, io) ==
    IF ~exists THEN "FileNotFoundError"
    ELSE IF ~StartsWithDef(new_implementation) THEN "ValueError_not_def"
    ELSE IF io = "read_error" THEN "OSError_read"
    ELSE IF ~RangeIsValid(loc, lines) THEN "ValueError_range"
    ELSE IF ~process_new_implementation(new_implementation,
                                        get_indentation(loc.source_lines)).ok
         THEN "ValueError_empty"
    ELSE IF io \in {"write_error", "write_cut"} THEN "OSError_write"
    ELSE "written"

\* The file after the call.
RewrittenFile(exists, lines, loc, new_implementation, io) ==
    LET outcome == RewriteOutcome(exists, lines, loc, new_implementation, io)
        base_indentation == get_indentation(loc.source_lines)
        processed_lines ==
            process_new_implementation(new_implementation, base_indentation).lines
    IN  IF outcome = "written"
        THEN splice(lines, loc.start_line - 1, processed_lines, loc.end_line)
        ELSE IF outcome = "OSError_write" /\ io = "write_cut" THEN <<>>
        ELSE lines

Durable_replace_function_implementation ==
    /\ rewrites < MaxRewrites
    /\ location # NoLocation
    /\ \E new_implementation \in NewImplementations,
          io \in {"ok", "read_error", "write_error", "write_cut"} :
        /\ file' = RewrittenFile(file_exists, file, location, new_implementation, io)
        /\ rewrite' = [outcome |-> RewriteOutcome(file_exists, file, location,
                                                  new_implementation, io),
                       before |-> file,
                       location |-> location,
                       new_implementation |-> new_implementation]
    /\ rewrites' = rewrites + 1
    /\ UNCHANGED <<file_exists, location>>

\* get_function_lines: the descriptor of a function that now stands at lines
\* s..e of the file: end_line = start_line + len(source_lines) - 1.
get_function_lines ==
    /\ file_exists
    /\ rewrites < MaxRewrites
    /\ \E s \in 1..Len(file) : \E e \in s..Len(file) :
        LET source_lines == SubSeq(file, s, e)
        IN  location' = [start_line |-> s,
                         end_line |-> s + Len(source_lines) - 1,
                         source_lines |-> source_lines]
    /\ UNCHANGED <<file_exists, file, rewrite, rewrites>>

\* FunctionLocation(...): a descriptor built by hand or kept from an earlier
\* state of the file; its range need not be one of the file as it is now.
FunctionLocation ==
    /\ rewrites < MaxRewrites
    /\ location = NoLocation
    /\ \E s \in 0..(Len(file) + 1), e \in 0..(Len(file) + 1) :
        /\ ~(1 <= s /\ s <= e /\ e <= Len(file))
        /\ location' = [start_line |-> s, end_line |-> e,
                        source_lines |-> <<Line(4, "def", 0)>>]
    /\ UNCHANGED <<file_exists, file, rewrite, rewrites>>

\* The file as first read: n lines, every odd line at the margin and every
\* even line four columns in, so that a function may start at either depth.
InitialFile(n) ==
    [i \in 1..n |-> Line(IF i % 2 = 1 THEN 0 ELSE 4, "old", i)]

InitDurable ==
    /\ IdleEphemeral
    /\ IdleGen
    /\ IdleRecorder
    /\ IdleInspect
    /\ IdleOrch
    /\ IdleSession
    /\ file_exists \in BOOLEAN
    /\ \E n \in 1..MaxFileLen :
         file = IF file_exists THEN InitialFile(n) ELSE <<>>
    /\ location = NoLocation
    /\ rewrite = NoRewrite
    /\ rewrites = 0

NextDurable ==
    \/ Durable_replace_function_implementation /\ UNCHANGED <<evars, gvars, rvars, ivars, ovars, svars>>
    \/ get_function_lines /\ UNCHANGED <<evars, gvars, rvars, ivars, ovars, svars>>
    \/ FunctionLocation /\ UNCHANGED <<evars, gvars, rvars, ivars, ovars, svars>>

SpecDurable == InitDurable /\ [][NextDurable]_vars

\* -------------------------------------------------- durable: the claims
RewriteErrors ==
    {"FileNotFoundError", "ValueError_not_def", "OSError_read",
     "ValueError_range", "ValueError_empty", "OSError_write"}

\* C3: a rewrite of the range [s, e], 1 <= s <= e <= N, of an N-line file by
\* a k-line candidate leaves N - (e - s + 1) + k lines: the old lines 1..s-1,
\* then the k lines of the candidate (its blank lines blank, its other lines
\* with their text), then the old lines e+1..N in their order.
C3_SpliceKeepsTheRest ==
    LET s == rewrite.location.start_line
        e == rewrite.location.end_line
        N == Len(rewrite.before)
        k == Len(rewrite.new_implementation)
    IN  (rewrite.outcome = "written" /\ 1 <= s /\ s <= e /\ e <= N) =>
            /\ Len(file) = N - (e - s + 1) + k
            /\ \A i \in 1..(s - 1) : file[i] = rewrite.before[i]
            /\ \A i \in 1..k :
                 /\ file[s + i - 1].txt = rewrite.new_implementation[i].txt
                 /\ file[s + i - 1].id = 0
            /\ \A j \in (e + 1)..N :
                 file[j - (e - s + 1) + k] = rewrite.before[j]

\* C3's case: lines 2..3 of a four-line file replaced by a three-line
\* candidate; a line stands before the range and a line after it.
C3_Witness ==
    /\ rewrite.outcome = "written"
    /\ rewrite.location.start_line = 2
    /\ rewrite.location.end_line = 3
    /\ Len(rewrite.before) = 4
    /\ Len(rewrite.new_implementation) = 3
    /\ Len(file) = 5

\* C6: a call whose descriptor has start_line < 1 or end_line beyond the
\* file's last line ends in an error raised before the file is opened for
\* writing, and the file is as it was.
C6_StaleRangeRefused ==
    (rewrite.outcome # "none"
        /\ (rewrite.location.start_line < 1
            \/ rewrite.location.end_line > Len(rewrite.before)))
        => /\ rewrite.outcome \in RewriteErrors \ {"OSError_write"}
           /\ file = rewrite.before

\* C6's case: a def candidate, a readable file, and an end_line past its end.
C6_Witness ==
    /\ rewrite.outcome = "ValueError_range"
    /\ rewrite.location.start_line >= 1
    /\ rewrite.location.end_line > Len(rewrite.before)
    /\ Len(rewrite.before) >= 1

\* C9: in the lines written for the candidate, the first non-blank line has
\* the indentation of the original function's first line, and every other
\* non-blank line is as far from it as it was in the candidate.
C9_ReflowKeepsNesting ==
    LET cand == rewrite.new_implementation
        s == rewrite.location.start_line
        base == get_indentation(rewrite.location.source_lines)
        first == CHOOSE i \in NonBlank(cand) : \A j \in NonBlank(cand) : i <= j
    IN  rewrite.outcome = "written" =>
            /\ file[s + first - 1].ind = base
            /\ \A i \in NonBlank(cand) :
                 file[s + i - 1].ind - file[s + first - 1].ind
                    = cand[i].ind - cand[first].ind

\* C10: a call whose candidate has no non-blank content ends in an error and
\* the file is as it was.
C10_EmptyCandidateRefused ==
    (rewrite.outcome # "none" /\ NonBlank(rewrite.new_implementation) = {})
        => /\ rewrite.outcome \in RewriteErrors
           /\ file = rewrite.before

\* C10's case: a whitespace-only candidate for a valid range of a file that
\* exists.
C10_Witness ==
    /\ rewrite.outcome = "ValueError_not_def"
    /\ rewrite.new_implementation = <<Line(4, "", 0)>>
    /\ RangeIsValid(rewrite.location, rewrite.before)
    /\ rewrite.location.start_line <= rewrite.location.end_line
    /\ file_exists

\* --------------------------------------- workflow: generation/generator.py
\* The frames of the call stack the request keeps.
ContextFrames == 10

\* Exceptions that derive from Exception, which `except Exception` catches.
ExceptionSubclasses ==
    {"RuntimeError", "TimeoutError", "AttributeError", "OSError", "EOFError",
     "UserDeclinedImplementation"}

CaughtByExceptException_OnlyOSError(exc) == exc = "OSError"

\* except Exception as e
CaughtByExceptException(exc) == exc \in ExceptionSubclasses

\* How `await call_llm(...)` followed by response.parsed.implementation can
\* end: with a suggestion ("ok"), with an exception of the transport
\* ("RuntimeError"), with a timeout ("TimeoutError"), or with a response that
\* does not parse to the schema, whose .parsed is None ("AttributeError").
LLMOutcomes == {"ok", "RuntimeError", "TimeoutError", "AttributeError"}

\* What show_implementation_comparison_and_confirm can do: return True,
\* return False, or fail.
ConfirmOutcomes == {"accept", "reject", "RuntimeError"}

\* What the user can answer at a y/n prompt: yes, no, anything else, or
\* nothing at all (end of input, input() raises EOFError).
Choices == {"y", "n", "other", "eof"}

\* What the user can type at a manual-authoring prompt before the input
\* ends: up to MaxInput lines, each some code or blank.
RECURSIVE Scripts(_)
Scripts(n) ==
    IF n = 0 THEN {<<>>}
    ELSE Scripts(n - 1)
         \cup {Append(sc, l) : sc \in {x \in Scripts(n - 1) : Len(x) = n - 1},
                               l \in {"code", ""}}

\* The input loop of prompt_user_for_implementation: a blank line ends it
\* once a line has been read; the end of input ends it.
RECURSIVE ReadLines(_, _)
ReadLines(inputs, lines) ==
    IF inputs = <<>> THEN lines
    ELSE IF Head(inputs) = "" /\ lines # <<>> THEN lines
    ELSE ReadLines(Tail(inputs), Append(lines, Head(inputs)))

\* prompt_user_for_implementation: the default implementation when no line
\* was read, else the lines joined.
prompt_user_for_implementation(inputs) ==
    LET lines == ReadLines(inputs, <<>>)
    IN  IF lines = <<>>
        THEN [origin |-> "default", lines |-> <<"def", "code">>]
        ELSE [origin |-> "user", lines |-> lines]

\* cast(ImplementationSuggestion, response.parsed).implementation
LLMSuggestion == [origin |-> "llm", lines |-> <<"def", "code">>]

limited_call_stack_FirstFrames(cs) ==
    IF Len(cs) > ContextFrames THEN SubSeq(cs, 1, ContextFrames) ELSE cs

\* call_stack[-10:] if len(call_stack) > 10 else call_stack
limited_call_stack(cs) ==
    IF Len(cs) > ContextFrames
    THEN SubSeq(cs, Len(cs) - ContextFrames + 1, Len(cs))
    ELSE cs

\* The call-stack part of the system prompt: the "showing last .. of .."
\* line and one "Call Stack Level i" entry per kept frame, in order.
RenderRequest(cs) ==
    LET limited == limited_call_stack(cs)
    IN  [frames |-> [i \in 1..Len(limited) |-> [level |-> i, frame |-> limited[i]]],
         shown |-> Len(limited),
         total |-> Len(cs)]

Returned(impl) == [kind |-> "returned", impl |-> impl, exc |-> "none"]
Raised(exc) == [kind |-> "raised", impl |-> NoImpl, exc |-> exc]

\* An exception raised inside the try of generate_implementation_for_function
\* (lines 188-203): handled at line 205 when the clause catches it, else it
\* leaves the function.
RaiseInsideTry_AsksAgain(exc) ==
    IF CaughtByExceptException(exc)
    THEN /\ pc' = "ask_ai"
         /\ result' = result
    ELSE /\ pc' = "done"
         /\ result' = Raised(exc)

RaiseInsideTry(exc) ==
    IF CaughtByExceptException(exc)
    THEN /\ pc' = "except_205"
         /\ result' = result
    ELSE /\ pc' = "done"
         /\ result' = Raised(exc)

\* choice = input("Generate implementation with AI? (y/n): ")
AskAI ==
    /\ variant = "jitter"
    /\ pc = "ask_ai"
    /\ \E choice \in Choices :
        CASE choice = "y" ->
                /\ pc' = "build_request" /\ result' = result
                /\ history' = [history EXCEPT !.answered_yes = TRUE]
          [] choice = "n" ->
                pc' = "manual_212" /\ result' = result /\ history' = history
          [] choice = "other" ->
                pc' = "ask_ai" /\ result' = result /\ history' = history
          [] choice = "eof" ->
                pc' = "done" /\ result' = Raised("EOFError") /\ history' = history
    /\ UNCHANGED <<variant, call_stack, request, suggested_impl>>

\* get_llm_implementation_suggestion up to its try: inspect.getsource(func),
\* which fails for a function without source, and the rendering of the prompt.
BuildRequest ==
    /\ variant = "jitter"
    /\ pc = "build_request"
    /\ \E has_source \in BOOLEAN :
        IF has_source
        THEN /\ request' = RenderRequest(call_stack)
             /\ pc' = "call_llm"
             /\ result' = result
        ELSE /\ request' = request
             /\ RaiseInsideTry("OSError")
    /\ UNCHANGED <<variant, call_stack, suggested_impl, history>>

\* The try of get_llm_implementation_suggestion: the call of the generator;
\* a failure is handled at line 149 when the clause catches it, else it
\* leaves the function and meets the try of the caller.
CallLLM ==
    /\ variant = "jitter"
    /\ pc = "call_llm"
    /\ \E outcome \in LLMOutcomes :
        IF outcome = "ok"
        THEN /\ suggested_impl' = LLMSuggestion
             /\ pc' = "confirm"
             /\ result' = result
             /\ history' = [history EXCEPT !.llm_calls = @ + 1]
        ELSE /\ suggested_impl' = suggested_impl
             /\ history' = [history EXCEPT !.llm_calls = @ + 1,
                                           !.llm_failure = outcome]
             /\ IF CaughtByExceptException(outcome)
                THEN pc' = "llm_fallback_152" /\ result' = result
                ELSE RaiseInsideTry(outcome)
    /\ UNCHANGED <<variant, call_stack, request>>

\* return prompt_user_for_implementation(func) at line 152: what the user
\* types becomes the suggestion.
FallbackPrompt ==
    /\ variant = "jitter"
    /\ pc = "llm_fallback_152"
    /\ \E inputs \in Scripts(MaxInput) :
        suggested_impl' = prompt_user_for_implementation(inputs)
    /\ history' = [history EXCEPT !.manual_prompts = @ + 1]
    /\ pc' = "confirm"
    /\ UNCHANGED <<variant, call_stack, request, result>>

\* if show_implementation_comparison_and_confirm(func, suggested_impl)
Confirm ==
    /\ variant = "jitter"
    /\ pc = "confirm"
    /\ \E outcome \in ConfirmOutcomes :
        CASE outcome = "accept" -> pc' = "done" /\ result' = Returned(suggested_impl)
          [] outcome = "reject" -> pc' = "ask_manual" /\ result' = result
          [] OTHER -> RaiseInsideTry(outcome)
    /\ UNCHANGED <<variant, call_stack, request, suggested_impl, history>>

\* choice = input("Write implementation manually instead? (y/n): "); on no,
\* raise UserDeclinedImplementation, inside the try.
AskManual ==
    /\ variant = "jitter"
    /\ pc = "ask_manual"
    /\ \E choice \in Choices :
        CASE choice = "y" ->
                pc' = "manual_199" /\ result' = result /\ history' = history
          [] choice = "n" ->
                /\ history' = [history EXCEPT !.declined = TRUE]
                /\ RaiseInsideTry("UserDeclinedImplementation")
          [] choice = "other" ->
                pc' = "ask_manual" /\ result' = result /\ history' = history
          [] choice = "eof" ->
                history' = history /\ RaiseInsideTry("EOFError")
    /\ UNCHANGED <<variant, call_stack, request, suggested_impl>>

\* return prompt_user_for_implementation(func) at lines 199, 208 and 212
ManualPrompt ==
    /\ variant = "jitter"
    /\ pc \in {"manual_199", "except_205", "manual_212"}
    /\ \E inputs \in Scripts(MaxInput) :
        result' = Returned(prompt_user_for_implementation(inputs))
    /\ history' = [history EXCEPT !.manual_prompts = @ + 1]
    /\ pc' = "done"
    /\ UNCHANGED <<variant, call_stack, request, suggested_impl>>

\* ------------------------------- workflow: implementation_generator.py
\* An exception raised inside the try of the prototype's
\* generate_implementation_for_function (lines 158-163): handled at line 164
\* when the clause catches it, else it leaves the function.
Proto_RaiseInsideTry(exc) ==
    IF CaughtByExceptException(exc)
    THEN /\ pc' = "except_164"
         /\ result' = result
    ELSE /\ pc' = "done"
         /\ result' = Raised(exc)

\* The prototype's get_llm_implementation_suggestion up to its try.
Proto_BuildRequest ==
    /\ variant = "prototype"
    /\ pc = "build_request"
    /\ \E has_source \in BOOLEAN :
        IF has_source
        THEN /\ request' = [frames |-> <<>>, shown |-> 0, total |-> 0]
             /\ pc' = "call_llm"
             /\ result' = result
        ELSE /\ request' = request
             /\ Proto_RaiseInsideTry("OSError")
    /\ UNCHANGED <<variant, call_stack, suggested_impl, history>>

\* Its try: the call of the generator, and line 92 on failure.
Proto_CallLLM ==
    /\ variant = "prototype"
    /\ pc = "call_llm"
    /\ \E outcome \in LLMOutcomes :
        IF outcome = "ok"
        THEN /\ suggested_impl' = LLMSuggestion
             /\ pc' = "accept_114"
             /\ result' = result
             /\ history' = [history EXCEPT !.llm_calls = @ + 1]
        ELSE /\ suggested_impl' = suggested_impl
             /\ history' = [history EXCEPT !.llm_calls = @ + 1,
                                           !.llm_failure = outcome]
             /\ IF CaughtByExceptException(outcome)
                THEN pc' = "llm_fallback_92" /\ result' = result
                ELSE Proto_RaiseInsideTry(outcome)
    /\ UNCHANGED <<variant, call_stack, request>>

Proto_FallbackPrompt ==
    /\ variant = "prototype"
    /\ pc = "llm_fallback_92"
    /\ \E inputs \in Scripts(MaxInput) :
        suggested_impl' = prompt_user_for_implementation(inputs)
    /\ history' = [history EXCEPT !.manual_prompts = @ + 1]
    /\ pc' = "accept_114"
    /\ UNCHANGED <<variant, call_stack, request, result>>

\* prompt_user_for_acceptance_or_edit: accept, write by hand, or edit; an
\* edit that reads no line asks again.
Proto_AcceptOrEdit ==
    /\ variant = "prototype"
    /\ pc = "accept_114"
    /\ \E choice \in Choices \cup {"e"}, inputs \in Scripts(MaxInput) :
        CASE choice = "y" ->
                /\ pc' = "done" /\ result' = Returned(suggested_impl)
                /\ history' = history
          [] choice = "n" ->
                /\ pc' = "done"
                /\ result' = Returned(prompt_user_for_implementation(inputs))
                /\ history' = [history EXCEPT !.manual_prompts = @ + 1]
          [] choice = "e" ->
                /\ IF ReadLines(inputs, <<>>) # <<>>
                   THEN /\ pc' = "done"
                        /\ result' = Returned([origin |-> "user",
                                               lines |-> ReadLines(inputs, <<>>)])
                   ELSE pc' = pc /\ result' = result
                /\ history' = history
          [] choice = "other" ->
                pc' = pc /\ result' = result /\ history' = history
          [] choice = "eof" ->
                history' = history /\ Proto_RaiseInsideTry("EOFError")
    /\ UNCHANGED <<variant, call_stack, request, suggested_impl>>

\* except Exception at line 164: return prompt_user_for_implementation(func)
Proto_ExceptPrompt ==
    /\ variant = "prototype"
    /\ pc = "except_164"
    /\ \E inputs \in Scripts(MaxInput) :
        result' = Returned(prompt_user_for_implementation(inputs))
    /\ history' = [history EXCEPT !.manual_prompts = @ + 1]
    /\ pc' = "done"
    /\ UNCHANGED <<variant, call_stack, request, suggested_impl>>

\* A call generate_implementation_for_function(func, call_stack) with a chain
\* of n frames, numbered from the root (1) to the function that raised (n).
InitGen ==
    /\ IdleEphemeral
    /\ IdleDurable
    /\ IdleRecorder
    /\ IdleInspect
    /\ IdleOrch
    /\ IdleSession
    /\ variant \in {"jitter", "prototype"}
    /\ pc = IF variant = "jitter" THEN "ask_ai" ELSE "build_request"
    /\ \E n \in 0..MaxChain :
         call_stack = IF variant = "jitter" THEN [i \in 1..n |-> i] ELSE <<>>
    /\ request = NoRequest
    /\ suggested_impl = NoImpl
    /\ result = NoResult
    /\ history = NoHistory

NextGen ==
    \/ AskAI /\ UNCHANGED <<evars, dvars, rvars, ivars, ovars, svars>>
    \/ BuildRequest /\ UNCHANGED <<evars, dvars, rvars, ivars, ovars, svars>>
    \/ CallLLM /\ UNCHANGED <<evars, dvars, rvars, ivars, ovars, svars>>
    \/ FallbackPrompt /\ UNCHANGED <<evars, dvars, rvars, ivars, ovars, svars>>
    \/ Confirm /\ UNCHANGED <<evars, dvars, rvars, ivars, ovars, svars>>
    \/ AskManual /\ UNCHANGED <<evars, dvars, rvars, ivars, ovars, svars>>
    \/ ManualPrompt /\ UNCHANGED <<evars, dvars, rvars, ivars, ovars, svars>>
    \/ Proto_BuildRequest /\ UNCHANGED <<evars, dvars, rvars, ivars, ovars, svars>>
    \/ Proto_CallLLM /\ UNCHANGED <<evars, dvars, rvars, ivars, ovars, svars>>
    \/ Proto_FallbackPrompt /\ UNCHANGED <<evars, dvars, rvars, ivars, ovars, svars>>
    \/ Proto_AcceptOrEdit /\ UNCHANGED <<evars, dvars, rvars, ivars, ovars, svars>>
    \/ Proto_ExceptPrompt /\ UNCHANGED <<evars, dvars, rvars, ivars, ovars, svars>>

SpecGen == InitGen /\ [][NextGen]_vars

\* ------------------------------------------------- workflow: the claims
\* C4: when the user chose AI generation, rejected the suggestion and
\* answered no to writing by hand, the call ends by raising
\* UserDeclinedImplementation: it returns no candidate and never asks the
\* user for a manual implementation.
C4_DeclineRaises ==
    (variant = "jitter" /\ history.declined /\ history.llm_failure = "none") =>
        /\ history.manual_prompts = 0
        /\ pc = "done" => result = Raised("UserDeclinedImplementation")

\* C7: a call in which the generator failed (an exception, a timeout, a
\* response without a parsed suggestion) ends, when it ends, by returning a
\* candidate that came from the manual-authoring prompt; nothing is raised to
\* the caller.
C7_GeneratorFailureFallsBack ==
    (history.llm_failure # "none") =>
        /\ result.kind # "raised"
        /\ pc = "done" =>
            /\ result.kind = "returned"
            /\ result.impl.origin \in {"user", "default"}
            /\ history.manual_prompts >= 1

\* C7's case: the generator timed out and the call returned what the user
\* typed.
C7_Witness ==
    /\ variant = "jitter"
    /\ history.llm_failure = "TimeoutError"
    /\ pc = "done"
    /\ result.kind = "returned"
    /\ result.impl = [origin |-> "user", lines |-> <<"code">>]

\* C23: in one call of generator.py's generate_implementation_for_function
\* the generator is called at most once, and only after the user answered
\* yes to the AI prompt. While the call stands at the AI prompt nothing has
\* happened yet (an unrecognised answer only asks again); an answer of no
\* leads to manual authoring with no generator call; and once the generator
\* has been called the call never stands at the AI prompt or at the manual
\* path of "no" again: it is on its way to its end, where it has returned a
\* candidate or raised.
C23_GeneratorCalledOnceAfterYes ==
    variant = "jitter" =>
        /\ history.llm_calls <= 1
        /\ history.llm_calls = 1 => history.answered_yes
        /\ pc = "ask_ai" =>
            /\ history = NoHistory
            /\ request = NoRequest
            /\ suggested_impl = NoImpl
            /\ result = NoResult
        /\ pc = "manual_212" => (history.llm_calls = 0 /\ ~history.answered_yes)
        /\ history.llm_calls = 1 =>
            /\ pc \in {"confirm", "llm_fallback_152", "ask_manual",
                        "manual_199", "except_205", "done"}
            /\ pc = "done" => result.kind \in {"returned", "raised"}

\* C23's case: the user answered yes, the generator was called once and the
\* call ended by returning its suggestion.
C23_Witness ==
    /\ variant = "jitter"
    /\ history.answered_yes
    /\ history.llm_calls = 1
    /\ history.llm_failure = "none"
    /\ pc = "done"
    /\ result = Returned(LLMSuggestion)

\* C21: a candidate that comes from prompt_user_for_implementation is never
\* blank: it holds a line that is not blank, the user's or the default
\* implementation's.
C21_PromptNeverReturnsBlank ==
    (result.kind = "returned" /\ result.impl.origin \in {"user", "default"}) =>
        \E i \in DOMAIN result.impl.lines : result.impl.lines[i] # ""

\* C8: the request rendered for a chain of n frames holds the last min(n, 10)
\* frames of the chain, in the chain's order, and no other frame.
C8_LastTenFramesInOrder ==
    (variant = "jitter" /\ request # NoRequest) =>
        LET n == Len(call_stack)
            k == Min(n, 10)
        IN  /\ Len(request.frames) = k
            /\ \A i \in 1..k : request.frames[i].frame = call_stack[n - k + i]
            /\ \A i \in 1..k : request.frames[i].level = i

\* C8's case: a chain longer than ten frames, cut to ten.
C8_Witness ==
    /\ variant = "jitter"
    /\ request # NoRequest
    /\ Len(call_stack) = 12
    /\ Len(request.frames) = 10
    /\ request.frames[1].frame = 3

\* ---------------------------------- recorder: not_implemented_handler.py
\* Longest traceback (number of frames from the handling code to the raise).
MaxTb == 2

\* The code object of the function that raises, and that of another function
\* of the same name (an override, a rebinding of the name).
RaisingCode == 1
OtherCode == 2

Fn(code) == [kind |-> "function", code |-> code]
None == [kind |-> "None", code |-> 0]

\* What the name frame.f_code.co_name can be bound to in a namespace: nothing,
\* the raising function, another function, a value that is not callable, a
\* callable without __code__ (a class, a builtin).
Bindings ==
    {[kind |-> "absent", code |-> 0], Fn(RaisingCode), Fn(OtherCode),
     [kind |-> "not_callable", code |-> 0], [kind |-> "no_code", code |-> 0]}

\* What frame.f_locals holds under "self" and what getattr(self, func_name)
\* gives: no self at all; no such attribute; a bound method of some function;
\* an attribute without __func__ (a staticmethod, an instance attribute); a
\* property whose getter raises.
SelfLookups ==
    {[self |-> FALSE, attr |-> "absent", func |-> None],
     [self |-> TRUE, attr |-> "absent", func |-> None],
     [self |-> TRUE, attr |-> "method", func |-> Fn(RaisingCode)],
     [self |-> TRUE, attr |-> "method", func |-> Fn(OtherCode)],
     [self |-> TRUE, attr |-> "plain", func |-> None],
     [self |-> TRUE, attr |-> "raises", func |-> None]}

\* The frame that raised: its code, and what its namespaces hold.
RaisingFrames ==
    [f_code : {RaisingCode}, f_locals : Bindings, f_globals : Bindings,
     self : SelfLookups]

\* A frame between the handling code and the raise.
CallerFrame(i) ==
    [f_code |-> 10 + i, f_locals |-> [kind |-> "absent", code |-> 0],
     f_globals |-> [kind |-> "absent", code |-> 0],
     self |-> [self |-> FALSE, attr |-> "absent", func |-> None]]

\* The tb_next chain of a failure raised k frames down.
Tracebacks ==
    {[i \in 1..k |-> IF i = k THEN fr ELSE CallerFrame(i)] :
        k \in 1..MaxTb, fr \in RaisingFrames}

\* NotImplementedError, a subclass of it, any other exception.
ExcTypes == {"NotImplementedError", "Subclass", "ValueError"}

ReturnedValue(v) == [kind |-> "returned", value |-> v]
RaisedError(exc) == [kind |-> "raised", value |-> exc]

\* candidate.__code__ is frame.f_code, for a callable that has __code__
IsFunctionOfFrame(candidate, frame) ==
    /\ candidate.kind = "function"
    /\ candidate.code = frame.f_code

\* if "self" in frame.f_locals: ... return method.__func__ (lines 36-41); a
\* getter that raises is caught by except Exception (43-44).
MethodBranch(frame) ==
    IF frame.self.self /\ frame.self.attr = "method"
    THEN ReturnedValue(frame.self.func)
    ELSE ReturnedValue(None)

\* while tb.tb_next is not None: tb = tb.tb_next; frame = tb.tb_frame
DeepestFrame(tb) == tb[Len(tb)]

\* get_function_from_not_implemented_error() under the failure ei.
get_function_from_not_implemented_error(ei) ==
    IF ei.type # "NotImplementedError" THEN ReturnedValue(None)
    ELSE IF ~ei.has_tb THEN RaisedError("AttributeError")
    ELSE LET frame == DeepestFrame(ei.tb)
         IN  IF IsFunctionOfFrame(frame.f_locals, frame)
             THEN ReturnedValue(frame.f_locals)
             ELSE IF IsFunctionOfFrame(frame.f_globals, frame)
             THEN ReturnedValue(frame.f_globals)
             ELSE MethodBranch(frame)

\* A chain of calls ends in a raise and the failure is now being handled: by
\* an except clause of the caller, or, inside the with block, by __exit__.
Raise ==
    /\ exc_info = NoExcInfo
    /\ handler.pc \in {"idle", "in_block"}
    /\ found = NotCalled
    /\ \E type \in ExcTypes, tb \in Tracebacks :
        /\ exc_info' = [type |-> type, has_tb |-> TRUE, tb |-> tb]
        /\ handler' = IF handler.pc = "in_block"
                      THEN [handler EXCEPT !.pc = "exit", !.escaping = exc_info']
                      ELSE handler
    /\ UNCHANGED found

\* e.__traceback__ = None in the except clause that handles the failure:
\* sys.exc_info() reads the traceback off the exception.
ClearTraceback ==
    /\ handler.pc = "idle"
    /\ exc_info.has_tb
    /\ found = NotCalled
    /\ exc_info' = [exc_info EXCEPT !.has_tb = FALSE, !.tb = <<>>]
    /\ UNCHANGED <<found, handler>>

\* A speculative call of the recorder, with or without a failure at hand.
Record ==
    /\ handler.pc = "idle"
    /\ found = NotCalled
    /\ found' = get_function_from_not_implemented_error(exc_info)
    /\ UNCHANGED <<exc_info, handler>>

\* NotImplementedHandler.__enter__
Enter ==
    /\ handler.pc = "idle"
    /\ exc_info = NoExcInfo
    /\ found = NotCalled
    /\ handler' = [handler EXCEPT !.pc = "in_block"]
    /\ UNCHANGED <<exc_info, found>>

\* The with block runs to its end without a failure.
BlockEnds ==
    /\ handler.pc = "in_block"
    /\ handler' = [handler EXCEPT !.pc = "exit"]
    /\ UNCHANGED <<exc_info, found>>

exit_return_SuppressesPlaceholder(exc_type) == exc_type = "NotImplementedError"

\* return False  # Don't suppress the exception
exit_return(exc_type) == FALSE

\* NotImplementedHandler.__exit__(exc_type, exc_value, exc_traceback): what
\* leaves the with statement is the failure handed in, unless __exit__
\* returns a true value or raises itself.
Exit ==
    /\ handler.pc = "exit"
    /\ LET inspects == handler.escaping.type = "NotImplementedError"
           func == IF inspects
                   THEN get_function_from_not_implemented_error(exc_info)
                   ELSE NotCalled
       IN  /\ found' = func
           /\ handler' =
                [handler EXCEPT
                    !.pc = "exited",
                    !.inspected = inspects,
                    !.propagated =
                        IF func.kind = "raised"
                        THEN [type |-> func.value, has_tb |-> TRUE, tb |-> <<>>]
                        ELSE IF exit_return(handler.escaping.type)
                        THEN NoExcInfo
                        ELSE handler.escaping]
    /\ UNCHANGED exc_info

InitRecorder ==
    /\ IdleEphemeral
    /\ IdleDurable
    /\ IdleGen
    /\ IdleInspect
    /\ IdleOrch
    /\ IdleSession
    /\ exc_info = NoExcInfo
    /\ found = NotCalled
    /\ handler = NoHandler

NextRecorder ==
    \/ Raise /\ UNCHANGED <<evars, dvars, gvars, ivars, ovars, svars>>
    \/ ClearTraceback /\ UNCHANGED <<evars, dvars, gvars, ivars, ovars, svars>>
    \/ Record /\ UNCHANGED <<evars, dvars, gvars, ivars, ovars, svars>>
    \/ Enter /\ UNCHANGED <<evars, dvars, gvars, ivars, ovars, svars>>
    \/ BlockEnds /\ UNCHANGED <<evars, dvars, gvars, ivars, ovars, svars>>
    \/ Exit /\ UNCHANGED <<evars, dvars, gvars, ivars, ovars, svars>>

SpecRecorder == InitRecorder /\ [][NextRecorder]_vars

\* -------------------------------------------------- recorder: the claims
\* C12: a function returned by get_function_from_not_implemented_error has
\* the code of the deepest frame of the traceback, the frame that raised.
C12_ReturnsTheRaisingFunction ==
    (found.kind = "returned" /\ found.value # None) =>
        found.value.code = DeepestFrame(exc_info.tb).f_code

\* C13: get_function_from_not_implemented_error never raises, and returns
\* None when no failure is being handled or the failure is not exactly
\* NotImplementedError.
C13_RecorderNeverRaises ==
    /\ found.kind # "raised"
    /\ (found.kind = "returned" /\ exc_info.type # "NotImplementedError")
            => found.value = None

\* C19: whatever leaves the with block, a failure of any type or none, is
\* what leaves the with statement after __exit__, unchanged; __exit__ looks
\* for the raising function exactly when the failure's type is
\* NotImplementedError itself.
C19_HandlerNeverSwallows ==
    handler.pc = "exited" =>
        /\ handler.propagated = handler.escaping
        /\ handler.inspected <=> (handler.escaping.type = "NotImplementedError")
        /\ (found # NotCalled) <=> handler.inspected

\* C19's case: a placeholder failure left the block, __exit__ found the
\* function that raised it, and the same failure left the with statement.
C19_Witness ==
    /\ handler.pc = "exited"
    /\ handler.escaping.type = "NotImplementedError"
    /\ found = ReturnedValue(Fn(RaisingCode))
    /\ handler.propagated = handler.escaping
    /\ Len(handler.propagated.tb) = MaxTb

\* ------------------------- inspector: source_manipulation/inspection.py
\* Most transparent wrappers (functools.wraps) around a callable.
MaxWrap == 2

\* The types an annotation is built from, and the module each is defined in:
\* int (builtins), typing.Any (typing), pathlib.Path (standard library) and
\* two classes of the program itself.
LeafTypes == {"int", "Any", "Path", "T", "U"}

module_of(t) ==
    CASE t = "int" -> "builtins"
      [] t = "Any" -> "typing"
      [] t = "Path" -> "pathlib"
      [] OTHER -> "__main__"

\* The modules of the standard library among them.
StdlibModules == {"builtins", "typing", "pathlib"}

\* An annotation: a plain type (get_origin is None), or a parameterized or
\* union type with its get_args.
Leaf(t) == [origin |-> "none", leaf |-> t, args |-> <<>>]
Generic(origin, args) == [origin |-> origin, leaf |-> "none", args |-> args]

\* param.empty: the parameter has no annotation
Empty == [origin |-> "none", leaf |-> "empty", args |-> <<>>]
\* the annotation None, as in Optional[T] == Union[T, None]
NoneAnn == [origin |-> "none", leaf |-> "None", args |-> <<>>]

PlainAnnotations == {Leaf(t) : t \in LeafTypes}

\* list[X], Optional[X], dict[X, Y], Union[X, Y]; typing collapses
\* Union[X, X] to X, so a union's members differ.
OneLevelAnnotations ==
    {Generic("list", <<x>>) : x \in PlainAnnotations}
    \cup {Generic("Union", <<x, NoneAnn>>) : x \in PlainAnnotations}
    \cup {Generic("dict", <<x, y>>) :
            x \in PlainAnnotations, y \in PlainAnnotations}
    \cup {Generic("Union", <<xy[1], xy[2]>>) :
            xy \in {p \in PlainAnnotations \X PlainAnnotations : p[1] # p[2]}}

\* dict[X, list[Y]], Union[list[X], set[Y]]
TwoLevelAnnotations ==
    {Generic("dict", <<x, Generic("list", <<y>>)>>) :
        x \in PlainAnnotations, y \in {Leaf("T"), Leaf("U")}}
    \cup {Generic("Union", <<Generic("list", <<x>>), Generic("set", <<y>>)>>) :
        x \in {Leaf("T"), Leaf("U")}, y \in {Leaf("int"), Leaf("T")}}

Annotations ==
    {Empty} \cup PlainAnnotations \cup OneLevelAnnotations \cup TwoLevelAnnotations

\* Concatenation of a sequence of sequences (list.extend in a loop).
RECURSIVE Flatten(_)
Flatten(seqs) ==
    IF seqs = <<>> THEN <<>> ELSE Head(seqs) \o Flatten(Tail(seqs))

\* _is_builtin_type: None, one of the listed builtin types, a type whose
\* __module__ is builtins, or one whose __module__ is typing.
is_builtin_type(type_obj) ==
    \/ type_obj = "None"
    \/ type_obj \in {"int"}
    \/ module_of(type_obj) = "builtins"
    \/ module_of(type_obj) = "typing"

\* _extract_custom_types_from_annotation: the names of the CustomTypeInfo
\* entries, in the order they are appended.
RECURSIVE extract_custom_types_from_annotation(_)
extract_custom_types_from_annotation(annotation) ==
    IF annotation = NoneAnn THEN <<>>
    ELSE IF annotation.origin # "none"
    THEN Flatten([i \in DOMAIN annotation.args |->
                    extract_custom_types_from_annotation(annotation.args[i])])
    ELSE IF is_builtin_type(annotation.leaf) THEN <<>>
    ELSE <<annotation.leaf>>

\* The plain types an annotation reaches when it is unwrapped.
RECURSIVE LeavesOf(_)
LeavesOf(annotation) ==
    IF annotation.origin = "none"
    THEN IF annotation.leaf \in LeafTypes THEN {annotation.leaf} ELSE {}
    ELSE UNION {LeavesOf(annotation.args[i]) : i \in DOMAIN annotation.args}

\* A parameter of a def: its name, its kind and its annotation.
Param(name, kind, annotation) ==
    [name |-> name, kind |-> kind, annotation |-> annotation]

\* inspect.signature(func).parameters: a bound method hides its first one.
inspect_signature(func) ==
    IF func.kind = "method" THEN Tail(func.params) ELSE func.params

\* _extract_function_arguments: one ArgumentInfo per parameter that is
\* neither *args nor **kwargs.
extract_function_arguments(func) ==
    LET ps == inspect_signature(func)
        kept == SelectSeq(ps, LAMBDA q : q.kind \notin {"varpos", "varkw"})
    IN  [i \in DOMAIN kept |->
            [name |-> kept[i].name,
             custom_types |->
                IF kept[i].annotation # Empty
                THEN extract_custom_types_from_annotation(kept[i].annotation)
                ELSE <<>>]]

\* A callable: what it is ("function", "method", or something that is
\* neither: "builtin", "class", "partial"), which object it is, whether
\* inspect can read its source, where that source stands, its parameters.
Callable(kind, id, has_source, params) ==
    [kind |-> kind, id |-> id, has_source |-> has_source,
     start_line |-> 10 * id + 1, nlines |-> id + 1, params |-> params]

\* def wrapper(*args, **kwargs) under functools.wraps: the id-th wrapper
Wrapper(id) ==
    Callable("function", id, TRUE,
             <<Param("args", "varpos", Empty), Param("kwargs", "varkw", Empty)>>)

\* The parameter lists of the callables inspected: one annotated parameter,
\* after self for a method, before *args for some.
ParamLists(kind) ==
    {(IF kind = "method" THEN <<Param("self", "pos", Empty)>> ELSE <<>>)
        \o <<Param("a", "pos", ann)>>
        \o (IF va THEN <<Param("args", "varpos", Empty)>> ELSE <<>>) :
     ann \in Annotations, va \in BOOLEAN}

InnermostCallables ==
    UNION {{Callable(kind, 0, TRUE, ps) : ps \in ParamLists(kind)} :
            kind \in {"function", "method"}}
    \cup {Callable(kind, 0, FALSE, <<Param("a", "pos", Leaf("T"))>>) :
            kind \in {"function", "method"}}
    \cup {Callable(kind, 0, FALSE, <<>>) : kind \in {"builtin", "class", "partial"}}

\* inspect.unwrap: follows __wrapped__ to the innermost callable; ValueError
\* when the chain of __wrapped__ comes back to a callable already seen.
unwrap(t) ==
    IF t.cyclic THEN RaisedError("ValueError")
    ELSE ReturnedValue(t.chain[Len(t.chain)])

\* inspect.getsourcelines(func): unwraps func itself before it looks for
\* the source; OSError when there is no source to read.
getsourcelines(t, func) ==
    IF unwrap(t).kind = "raised" THEN RaisedError("ValueError")
    ELSE IF ~func.has_source THEN RaisedError("OSError")
    ELSE ReturnedValue([source_lines |-> func.nlines,
                        start_line |-> func.start_line])

\* get_function_lines(func) for the callable t.chain[1], the outermost.
get_function_lines_of(t) ==
    LET func == IF unwrap(t).kind = "raised" THEN t.chain[1]
                ELSE unwrap(t).value
    IN  IF func.kind \notin {"function", "method"} THEN RaisedError("TypeError")
        ELSE LET src == getsourcelines(t, func)
             IN  IF src.kind = "raised"
                 THEN RaisedError(src.value)
                 ELSE ReturnedValue(
                        [describes |-> func.id,
                         start_line |-> src.value.start_line,
                         end_line |-> src.value.start_line
                                        + src.value.source_lines - 1,
                         source_lines |-> src.value.source_lines,
                         arguments |-> extract_function_arguments(func)])

\* @functools.wraps(f) def wrapper(...): one more transparent layer
Wrap ==
    /\ target # NoTarget
    /\ inspected = NotCalled
    /\ ~target.cyclic
    /\ Len(target.chain) <= MaxWrap
    /\ target' = [target EXCEPT
                    !.chain = <<Wrapper(Len(target.chain))>> \o target.chain]
    /\ UNCHANGED inspected

\* innermost.__wrapped__ = outermost: the chain of a function closes on itself
CloseChain ==
    /\ target # NoTarget
    /\ inspected = NotCalled
    /\ ~target.cyclic
    /\ target.chain[Len(target.chain)].kind = "function"
    /\ target' = [target EXCEPT !.cyclic = TRUE]
    /\ UNCHANGED inspected

Inspect_get_function_lines ==
    /\ target # NoTarget
    /\ inspected = NotCalled
    /\ inspected' = get_function_lines_of(target)
    /\ UNCHANGED target

InitInspect ==
    /\ IdleEphemeral
    /\ IdleDurable
    /\ IdleGen
    /\ IdleRecorder
    /\ IdleOrch
    /\ IdleSession
    /\ \E c \in InnermostCallables :
        target = [kind |-> "callable", chain |-> <<c>>, cyclic |-> FALSE]
    /\ inspected = NotCalled

NextInspect ==
    \/ Wrap /\ UNCHANGED <<evars, dvars, gvars, rvars, ovars, svars>>
    \/ CloseChain /\ UNCHANGED <<evars, dvars, gvars, rvars, ovars, svars>>
    \/ Inspect_get_function_lines /\ UNCHANGED <<evars, dvars, gvars, rvars, ovars, svars>>

SpecInspect == InitInspect /\ [][NextInspect]_vars

\* ------------------------------------------------- inspector: the claims
\* The callable at the end of the chain of wrappers.
Innermost == target.chain[Len(target.chain)]

\* The annotation the inspected function declares for the parameter `name`.
AnnotationOf(name) ==
    LET ps == Innermost.params
    IN  ps[CHOOSE i \in DOMAIN ps : ps[i].name = name].annotation

\* C14: a call of get_function_lines ends in one of two ways: with TypeError
\* or OSError, and so it does whenever the callable under the wrappers is no
\* function or method or has no source to read; or with a descriptor, and
\* then the descriptor is that of the innermost function, whose source is
\* readable.
C14_DescriptorOrNotInspectable ==
    inspected # NotCalled =>
        LET inspectable == /\ Innermost.kind \in {"function", "method"}
                           /\ Innermost.has_source
        IN  /\ inspected.kind = "raised" => inspected.value \in {"TypeError", "OSError"}
            /\ ~inspectable => inspected.kind = "raised"
            /\ inspected.kind = "returned" =>
                    /\ inspectable
                    /\ inspected.value.describes = Innermost.id
                    /\ inspected.value.start_line = Innermost.start_line

\* C15: a plain type reached in the annotation of an argument is among the
\* argument's custom types exactly when it is defined outside the standard
\* library.
C15_CustomIffNotStandard ==
    inspected.kind = "returned" =>
        \A i \in DOMAIN inspected.value.arguments :
            LET arg == inspected.value.arguments[i]
            IN  \A t \in LeavesOf(AnnotationOf(arg.name)) :
                    (\E j \in DOMAIN arg.custom_types : arg.custom_types[j] = t)
                        <=> module_of(t) \notin StdlibModules

\* C16: no type occurs twice among the custom types of one argument.
C16_CustomTypesFormASet ==
    inspected.kind = "returned" =>
        \A i \in DOMAIN inspected.value.arguments :
            LET cts == inspected.value.arguments[i].custom_types
            IN  \A j \in DOMAIN cts : \A k \in DOMAIN cts :
                    cts[j] = cts[k] => j = k

\* ------------------------- orchestrator: specification, section 4.6
\* The orchestrator (jitter/core/handler.py) is not among the sources. Its
\* states and transitions are those of section 4.6 of the specification;
\* validation and application are replace_function_implementation as
\* modelled above.

\* Most validation failures followed in one workflow.
MaxFailures == 2

\* VALIDATING fails: to the terminal failure instead of the confirmation.
after_validation_failure_Terminates == "PROPAGATED"

\* "VALIDATING: failure returns to the confirmation sub-flow rather than
\* terminating, giving the user another chance."
after_validation_failure == "SUGGESTED"

\* DETECTED -> CHAIN_CAPTURED -> REQUESTING
Orch_Capture ==
    /\ orch.state \in {"DETECTED", "CHAIN_CAPTURED"}
    /\ orch' = [orch EXCEPT !.state = IF orch.state = "DETECTED"
                                      THEN "CHAIN_CAPTURED" ELSE "REQUESTING"]
    /\ UNCHANGED evars

\* REQUESTING -> SUGGESTED with the generator's candidate, or DECLINED on a
\* generator failure.
Orch_Request ==
    /\ orch.state = "REQUESTING"
    /\ \/ \E src \in Candidates :
            orch' = [orch EXCEPT !.state = "SUGGESTED", !.candidate = src]
       \/ orch' = [orch EXCEPT !.state = "DECLINED"]
    /\ UNCHANGED evars

\* Confirmation sub-flow: accept -> CONFIRMED, edit -> EDITED with the
\* edited text, reject -> REJECTED_BY_USER.
Orch_Confirm ==
    /\ orch.state = "SUGGESTED"
    /\ \/ /\ orch.candidate # NoCandidate
          /\ orch' = [orch EXCEPT !.state = "CONFIRMED"]
       \/ \E src \in Candidates :
            orch' = [orch EXCEPT !.state = "EDITED", !.candidate = src]
       \/ orch' = [orch EXCEPT !.state = "REJECTED_BY_USER"]
    /\ UNCHANGED evars

\* Manual authoring after a rejection or a generator failure (-> EDITED), or
\* the explicit decline after a rejection (-> PROPAGATED, UserDeclined).
Orch_Manual ==
    /\ orch.state \in {"DECLINED", "REJECTED_BY_USER"}
    /\ \/ \E src \in Candidates :
            orch' = [orch EXCEPT !.state = "EDITED", !.candidate = src]
       \/ /\ orch.state = "REJECTED_BY_USER"
          /\ orch' = [orch EXCEPT !.state = "PROPAGATED", !.declined = TRUE]
    /\ UNCHANGED evars

\* CONFIRMED | EDITED -> VALIDATING -> APPLIED | VALIDATION_FAILED: the
\* candidate goes through replace_function_implementation.
Orch_Validate ==
    /\ orch.state \in {"CONFIRMED", "EDITED"}
    /\ orch.failures < MaxFailures
    /\ LET ref == names["func"]
           f == heap[ref]
           outcome == PatchOutcome(f, orch.candidate)
       IN  /\ heap' = [heap EXCEPT ![ref] = PatchedFunction(f, orch.candidate)]
           /\ attempt' = [outcome |-> outcome, src |-> orch.candidate,
                          before |-> f,
                          refs |-> {nm \in Names : names[nm] = ref}]
           /\ orch' = IF outcome = "applied"
                      THEN [orch EXCEPT !.state = "APPLIED"]
                      ELSE [orch EXCEPT !.state = "VALIDATION_FAILED",
                                        !.failures = @ + 1]
    /\ UNCHANGED <<names, called>>

\* VALIDATION_FAILED -> back to the confirmation sub-flow.
Orch_ValidationFailed ==
    /\ orch.state = "VALIDATION_FAILED"
    /\ orch' = [orch EXCEPT
                  !.state = after_validation_failure,
                  !.candidate = NoCandidate,
                  !.returns = IF after_validation_failure = "SUGGESTED"
                              THEN @ + 1 ELSE @]
    /\ UNCHANGED evars

\* APPLIED -> RESUMED: the original call is replayed.
Orch_Resume ==
    /\ orch.state = "APPLIED"
    /\ orch' = [orch EXCEPT !.state = "RESUMED"]
    /\ UNCHANGED evars

InitOrch ==
    /\ IdleDurable
    /\ IdleSession
    /\ IdleGen
    /\ IdleRecorder
    /\ IdleInspect
    /\ \E n \in {0, 2} : heap = <<FunctionObject(OriginalCode(n, 0), 0)>>
    /\ names = [nm \in Names |-> IF nm = "func" THEN 1 ELSE 0]
    /\ attempt = NoAttempt
    /\ called = NoCall
    /\ orch = [NoOrch EXCEPT !.state = "DETECTED"]

NextOrch ==
    \/ Orch_Capture /\ UNCHANGED <<dvars, gvars, rvars, ivars, svars>>
    \/ Orch_Request /\ UNCHANGED <<dvars, gvars, rvars, ivars, svars>>
    \/ Orch_Confirm /\ UNCHANGED <<dvars, gvars, rvars, ivars, svars>>
    \/ Orch_Manual /\ UNCHANGED <<dvars, gvars, rvars, ivars, svars>>
    \/ Orch_Validate /\ UNCHANGED <<dvars, gvars, rvars, ivars, svars>>
    \/ Orch_ValidationFailed /\ UNCHANGED <<dvars, gvars, rvars, ivars, svars>>
    \/ Orch_Resume /\ UNCHANGED <<dvars, gvars, rvars, ivars, svars>>

SpecOrch == InitOrch /\ [][NextOrch]_vars

\* ----------------------------------------------- orchestrator: the claims
\* C18: a candidate that replace_function_implementation refuses (syntax
\* error, no definition, arity mismatch) does not end the workflow: every
\* failed validation is followed by a return to the confirmation step, and
\* the workflow ends without a patch only when the user declined.
C18_FailureReturnsToConfirmation ==
    /\ orch.state \notin {"VALIDATION_FAILED"} => orch.returns = orch.failures
    /\ orch.state = "PROPAGATED" => orch.declined

\* C18's case: a candidate of the wrong arity was refused, the user got the
\* confirmation step again and supplied a candidate that was applied.
C18_Witness ==
    /\ orch.state = "RESUMED"
    /\ orch.failures = 1
    /\ orch.returns = 1
    /\ attempt.outcome = "applied"
    /\ heap[names["func"]].code.body = "new1"

\* --------- session: inspection.py and replacement.py on one file, in turn
\* The functions the module defines, in the order of their definitions.
Functions == <<"f", "g", "h">>

\* The file as imported: each function is a def line at the margin and one
\* line of body; with `sep`, a blank line stands between two functions.
SessionFile(sep) ==
    IF sep
    THEN [i \in 1..8 |-> IF i % 3 = 1 THEN Line(0, "def", i)
                         ELSE IF i % 3 = 2 THEN Line(4, "stmt", i)
                         ELSE Line(0, "", i)]
    ELSE [i \in 1..6 |-> IF i % 2 = 1 THEN Line(0, "def", i)
                         ELSE Line(4, "stmt", i)]

\* Which function each line of that file belongs to ("" for a line between
\* two functions).
SessionOwner(sep) ==
    IF sep
    THEN [i \in 1..8 |-> IF i % 3 = 0 THEN "" ELSE Functions[(i + 2) \div 3]]
    ELSE [i \in 1..6 |-> Functions[(i + 1) \div 2]]

\* func.__code__.co_firstlineno: the line of the def when the module was
\* compiled. The code object keeps it for as long as the module is loaded.
co_firstlineno(sep) ==
    [k \in DOMAIN Functions |-> IF sep THEN 3 * k - 2 ELSE 2 * k - 1]

\* The candidates that are one complete definition written at the margin.
CompleteDefinitions ==
    {c \in NewImplementations : c # <<>> /\ c[1] = Line(0, "def", 0)}

\* inspect.findsource for a code object, on the lines of the file as it is
\* now: from index lnum (0-based) walk up to a line that starts a def (one
\* its pattern matches).
\* Reading lines[lnum] past the end is the OSError "lineno is out of bounds".
RECURSIVE findsource(_, _)
findsource(lines, lnum) ==
    IF lnum > 0
    THEN IF lnum >= Len(lines) THEN [ok |-> FALSE, lnum |-> lnum]
         ELSE IF lines[lnum + 1].txt = "def" THEN [ok |-> TRUE, lnum |-> lnum]
         ELSE findsource(lines, lnum - 1)
    ELSE [ok |-> TRUE, lnum |-> lnum]

\* inspect.getblock: the first line and the lines below it up to the last
\* line with text before the first line with text that is not indented more.
getblock(lines) ==
    LET stop == {j \in 2..Len(lines) :
                    ~IsBlank(lines[j]) /\ lines[j].ind <= lines[1].ind}
        limit == IF stop = {} THEN Len(lines)
                 ELSE (CHOOSE j \in stop : \A k \in stop : j <= k) - 1
        text == {1} \cup {j \in 2..limit : ~IsBlank(lines[j])}
        last == CHOOSE j \in text : \A k \in text : k <= j
    IN  SubSeq(lines, 1, last)

\* get_function_lines(func) for the k-th function of the module, on the
\* file as it is now.
Session_get_function_lines ==
    /\ rewrites < MaxSessionRewrites
    /\ location = NoLocation
    /\ \E k \in DOMAIN Functions :
        LET found_at == findsource(file, session.co_firstlineno[k] - 1)
            source_lines == getblock(SliceFrom(file, found_at.lnum))
            start_line == found_at.lnum + 1
        IN  IF found_at.ok
            THEN /\ location' = [start_line |-> start_line,
                                 end_line |-> start_line + Len(source_lines) - 1,
                                 source_lines |-> source_lines]
                 /\ session' = [session EXCEPT !.target = Functions[k],
                                               !.error = "none"]
            ELSE /\ location' = NoLocation
                 /\ session' = [session EXCEPT !.target = Functions[k],
                                               !.error = "OSError"]
    /\ UNCHANGED <<file_exists, file, rewrite, rewrites>>

\* replace_function_implementation(location, new_implementation) with the
\* descriptor just computed and a new definition of its target.
Session_replace_function_implementation ==
    /\ rewrites < MaxSessionRewrites
    /\ location # NoLocation
    /\ \E new_implementation \in CompleteDefinitions :
        /\ file' = RewrittenFile(file_exists, file, location, new_implementation, "ok")
        /\ rewrite' = [outcome |-> RewriteOutcome(file_exists, file, location,
                                                  new_implementation, "ok"),
                       before |-> file,
                       location |-> location,
                       new_implementation |-> new_implementation]
        /\ session' =
             [session EXCEPT
                !.owner = splice(session.owner, location.start_line - 1,
                                 [i \in DOMAIN new_implementation |-> session.target],
                                 location.end_line),
                !.owner_before = session.owner,
                !.rewritten = session.target,
                !.target = "none"]
    /\ location' = NoLocation
    /\ rewrites' = rewrites + 1
    /\ UNCHANGED file_exists

InitSession ==
    /\ IdleEphemeral
    /\ IdleGen
    /\ IdleRecorder
    /\ IdleInspect
    /\ IdleOrch
    /\ file_exists = TRUE
    /\ \E sep \in BOOLEAN :
        /\ file = SessionFile(sep)
        /\ session = [NoSession EXCEPT !.co_firstlineno = co_firstlineno(sep),
                                       !.owner = SessionOwner(sep)]
    /\ location = NoLocation
    /\ rewrite = NoRewrite
    /\ rewrites = 0

NextSession ==
    \/ Session_get_function_lines /\ UNCHANGED <<evars, gvars, rvars, ivars, ovars>>
    \/ Session_replace_function_implementation /\ UNCHANGED <<evars, gvars, rvars, ivars, ovars>>

SpecSession == InitSession /\ [][NextSession]_vars

\* ---------------------------------------------------- session: the claims
\* The lines of a file that do not belong to function t, in their order.
RECURSIVE TextOfOthers(_, _, _)
TextOfOthers(lines, owner, t) ==
    IF lines = <<>> THEN <<>>
    ELSE IF Head(owner) = t THEN TextOfOthers(Tail(lines), Tail(owner), t)
    ELSE <<Head(lines)>> \o TextOfOthers(Tail(lines), Tail(owner), t)

\* C22: a rewrite whose descriptor was computed just before it replaces
\* exactly the lines of its target, and the lines of every other function
\* are in the file afterwards, unchanged and in their order, also when an
\* earlier rewrite changed the number of lines above the target.
C22_RewriteTouchesOnlyItsTarget ==
    rewrite.outcome = "written" =>
        /\ {i \in DOMAIN rewrite.before : session.owner_before[i] = session.rewritten}
             = rewrite.location.start_line..rewrite.location.end_line
        /\ TextOfOthers(file, session.owner, session.rewritten)
             = TextOfOthers(rewrite.before, session.owner_before, session.rewritten)

====
